---- MODULE Spec2Model ----
(***************************************************************************)
(* Model of feeds.py: the cached "latest timestamp" of the Package and     *)
(* News collections (retrieve_*_latest / refresh_*_latest), the ETag and   *)
(* Last-Modified functions built on it, the conditional feed views and the *)
(* package feed's item selection.                                          *)
(*                                                                         *)
(* Optional values are sequences: <<>> is Python's None (or a raised       *)
(* DoesNotExist), <<v>> is the value v.  Strings built by str() and + are  *)
(* sequences of tokens.                                                    *)
(***************************************************************************)
EXTENDS Integers, Sequences, FiniteSets, TLC

\* ------------------------------------------------------------------ bounds
MaxId == 2
MaxTs == 2
MaxTicks == 3
SelMaxId == 3
NThreads == 2

\* how many packages beyond the limit of the feed the large tables hold
TruncOver == 2

\* how many news items beyond the limit of the feed the news tables hold
NewsOver == 2

\* --------------------------------------------------------- program constants
CACHE_TIMEOUT == 1800
CACHE_PACKAGE_KEY == "cache_package_latest"
\* faulty variant of CACHE_NEWS_KEY: the package key pasted for the news tracker
CACHE_NEWS_KEY_Copied == "cache_package_latest"
CACHE_NEWS_KEY == "cache_news_latest"
PACKAGE_LIMIT == 50
NEWS_LIMIT == 10

Kinds == {"packages", "news"}
Ids == 1..MaxId
Stamps == 1..MaxTs
\* the clock advances in thirds of the cache timeout
Step == CACHE_TIMEOUT \div 3
MaxNow == MaxTicks * Step

None == <<>>
DoesNotExist == <<>>

\* The Arch and Repo tables (main.models), fixed during a run.
ArchNames == {"x86_64", "i686", "any"}
Agnostic(a) == a = "any"
RepoNames == {"core", "extra"}

VARIABLES
    db,        \* db[k]: the records of collection k, a function id -> record
    cache,     \* the cache store: key -> [value, expires, setAt]
    now,       \* the clock, in seconds
    last,      \* the operation that acted last: [op, kind]
    ret,       \* what the last retrieve_*_latest call returned
    queries,   \* how many aggregate queries the last operation ran
    req,       \* the last feed request: [kwargs, if_none_match, if_modified_since]
    etag,      \* the ETag the last feed request computed
    lastmod,   \* the Last-Modified value the last feed request computed
    resp,      \* the last feed request's response: "304", "200", "404", "none"
    selected,  \* whether the last feed request invoked get_object / items
    items,     \* the items the last feed request selected (ids, in order)
    prev,      \* the last ETag computation: [kind, kwargs, etag, max]
    before,    \* for the last feed request: the ETag computation before its own
    failed,    \* failed[k]: <<time, value left cached>> of the failed post_save
               \* hook of k, when the last hook of k failed
    th         \* th[t]: thread t of the concurrent runs: where it is in its
               \* call, its locals, and what its last retrieve call returned

vars == <<db, cache, now, last, ret, queries, req, etag, lastmod, resp,
          selected, items, prev, before, failed, th>>

\* what the sequential runs record about their last operation
observed == <<last, ret, queries, req, etag, lastmod, resp, selected, items,
              prev, before, failed>>

\* ------------------------------------------------------------ the database
KeyOf(k) == IF k = "packages" THEN CACHE_PACKAGE_KEY ELSE CACHE_NEWS_KEY

LastModified(k, rec) == IF k = "packages" THEN rec.last_update ELSE rec.last_modified

MaxOf(S) == CHOOSE m \in S : \A x \in S : x <= m

\* <Model>.objects.values(f).latest(f)[f]: the greatest f, or DoesNotExist
Latest(k, d) ==
    IF DOMAIN d = {} THEN DoesNotExist
    ELSE << MaxOf({LastModified(k, d[i]) : i \in DOMAIN d}) >>

\* Model.save(): insert the record, or update the one with this id
Write(d, id, rec) == [i \in (DOMAIN d) \cup {id} |-> IF i = id THEN rec ELSE d[i]]

\* --------------------------------------------------------------- the cache
\* a store that cannot be reached holds this mark in place of entries:
\* every get on it misses and every set on it is dropped
Unreachable == [unreachable |-> [value |-> 0, expires |-> 0, setAt |-> 0]]

Down(c) == "unreachable" \in DOMAIN c

\* cache.get(key): the value, unless the entry is absent or has expired
CacheGet(c, key, t) ==
    IF ~Down(c) /\ key \in DOMAIN c /\ t < c[key].expires
    THEN << c[key].value >> ELSE None

\* cache.set(key, value, timeout): overwrite, expiring timeout seconds from now
CacheSet(c, key, value, timeout, t) ==
    IF Down(c) THEN c
    ELSE [x \in (DOMAIN c) \cup {key} |->
            IF x = key THEN [value |-> value, expires |-> t + timeout, setAt |-> t]
            ELSE c[x]]

\* cache.add(key, value, timeout): set only when no live entry exists
CacheAdd(c, key, value, timeout, t) ==
    IF CacheGet(c, key, t) # None THEN c ELSE CacheSet(c, key, value, timeout, t)

CacheDelete(c, key) == [x \in (DOMAIN c) \ {key} |-> c[x]]

\* Python truth of a cached value or query result: a datetime is always true
Truthy(v) == v # None

\* ------------------------------------------------- the freshness trackers
\* retrieve_package_latest / retrieve_news_latest on cache c, collection d,
\* at time t: what is returned, the cache afterwards, and how many
\* aggregate queries ran
\* faulty variant of RetrieveLatest: an empty collection yields and caches a default
RetrieveLatest_CacheEmpty(k, c, d, t) ==
    LET latest == CacheGet(c, KeyOf(k), t) IN
    IF Truthy(latest) THEN [ret |-> latest, cache |-> c, queries |-> 0]
    ELSE LET fresh == IF Latest(k, d) = DoesNotExist THEN << 0 >> ELSE Latest(k, d) IN
         [ret |-> fresh,
          cache |-> CacheSet(c, KeyOf(k), fresh[1], CACHE_TIMEOUT, t),
          queries |-> 1]

\* the value returned after a miss is read back from the cache
RetrieveLatest_ReadsBack(k, c, d, t) ==
    LET latest == CacheGet(c, KeyOf(k), t) IN
    IF Truthy(latest) THEN [ret |-> latest, cache |-> c, queries |-> 0]
    ELSE LET fresh == Latest(k, d) IN
         IF fresh = DoesNotExist
         THEN [ret |-> None, cache |-> c, queries |-> 1]
         ELSE LET stored == CacheSet(c, KeyOf(k), fresh[1], CACHE_TIMEOUT, t) IN
              [ret |-> CacheGet(stored, KeyOf(k), t), cache |-> stored, queries |-> 1]

RetrieveLatest(k, c, d, t) ==
    LET latest == CacheGet(c, KeyOf(k), t) IN
    IF Truthy(latest) THEN [ret |-> latest, cache |-> c, queries |-> 0]
    ELSE LET fresh == Latest(k, d) IN
         IF fresh = DoesNotExist
         THEN [ret |-> None, cache |-> c, queries |-> 1]
         ELSE [ret |-> fresh,
               cache |-> CacheSet(c, KeyOf(k), fresh[1], CACHE_TIMEOUT, t),
               queries |-> 1]

\* refresh_package_latest / refresh_news_latest, the post_save receivers:
\* the cache after the hook ran on collection d at time t
\* faulty variants of RefreshLatest: cache.add for cache.set; cache.delete
\* for cache.set; a timeout twice as long
RefreshLatest_AddOnly(k, c, d, t) ==
    CacheAdd(c, KeyOf(k), Latest(k, d)[1], CACHE_TIMEOUT, t)

RefreshLatest_Delete(k, c, d, t) == CacheDelete(c, KeyOf(k))

RefreshLatest_LongTimeout(k, c, d, t) ==
    CacheSet(c, KeyOf(k), Latest(k, d)[1], 2 * CACHE_TIMEOUT, t)

\* the hook reads the entry and keeps the greater of the old and new values
RefreshLatest_KeepGreater(k, c, d, t) ==
    LET old == CacheGet(c, KeyOf(k), t)
        fresh == Latest(k, d)[1]
    IN  CacheSet(c, KeyOf(k), IF old # None /\ old[1] > fresh THEN old[1] ELSE fresh,
                 CACHE_TIMEOUT, t)

RefreshLatest(k, c, d, t) ==
    CacheSet(c, KeyOf(k), Latest(k, d)[1], CACHE_TIMEOUT, t)

\* ------------------------------------------------------ ETag, Last-Modified
\* str(kwargs): the dict's items between braces
RECURSIVE StrItems(_)
StrItems(kw) ==
    IF kw = <<>> THEN <<>>
    ELSE << kw[1][1], ":", kw[1][2], "," >> \o StrItems(Tail(kw))

StrDict(kw) == << "{" >> \o StrItems(kw) \o << "}" >>

\* str(latest) of a datetime
StrDatetime(t) == << ToString(t) >>

\* md5_constructor(s).hexdigest(), taken as injective on s
Md5(s) == << "md5" >> \o s

\* package_etag / news_etag, given what retrieve_*_latest returned
\* faulty variant of ETagOf: the timestamp is left out of the hash input
ETagOf_NoTimestamp(k, kw, latest) ==
    IF ~Truthy(latest) THEN None
    ELSE IF k = "packages" THEN Md5(StrDict(kw)) ELSE Md5(<< "news" >>)

ETagOf(k, kw, latest) ==
    IF ~Truthy(latest) THEN None
    ELSE IF k = "packages" THEN Md5(StrDict(kw) \o StrDatetime(latest[1]))
         ELSE Md5(StrDatetime(latest[1]))

\* the Last-Modified header value of a datetime
HttpDate(latest) == IF latest = None THEN None ELSE << "date", ToString(latest[1]) >>

\* django.views.decorators.http.condition for a GET without If-Match:
\* whether the request is answered "not modified" without calling the view
Condition(if_none_match, if_modified_since, res_etag, res_last_modified) ==
    \/ /\ if_none_match # None
       /\ res_etag # None
       /\ res_etag = if_none_match
       /\ (if_modified_since = None \/ res_last_modified = if_modified_since)
    \/ /\ if_none_match = None
       /\ if_modified_since # None
       /\ res_last_modified = if_modified_since

\* ------------------------------------------------------ the item selectors
\* the value of keyword argument name, '' when the URL did not give it
RECURSIVE Arg(_, _)
Arg(kw, name) ==
    IF kw = <<>> THEN ""
    ELSE IF kw[1][1] = name THEN kw[1][2] ELSE Arg(Tail(kw), name)

\* qs.filter(Q(arch=a) | Q(arch__agnostic=True)) on record r
\* faulty variants of ArchFilter: AND for OR; the agnostic packages left out
ArchFilter_And(r, a) == r.arch = a /\ Agnostic(r.arch)

ArchFilter_ArchOnly(r, a) == r.arch = a

ArchFilter(r, a) == r.arch = a \/ Agnostic(r.arch)

\* qs.filter(repo=r) on record r
\* faulty variant of RepoFilter: the repository condition left out
RepoFilter_Any(r, repo) == TRUE

RepoFilter(r, repo) == r.repo = repo

\* PackageFeed.get_object: whether Arch.objects.get / Repo.objects.get raise
\* faulty variant of GetObjectRaises: a name that matches no row is let through
GetObjectRaises_Never(arch, repo) == FALSE

GetObjectRaises(arch, repo) ==
    \/ arch # "" /\ arch \notin ArchNames
    \/ repo # "" /\ repo \notin RepoNames

\* PackageFeed.get_object: the ids the filtered queryset holds
GetObjectIds(d, arch, repo) ==
    {i \in DOMAIN d :
        /\ arch # "" => ArchFilter(d[i], arch)
        /\ repo # "" => RepoFilter(d[i], repo)}

\* s[:n]
Slice(s, n) == SubSeq(s, 1, IF Len(s) < n THEN Len(s) ELSE n)

\* order_by('-last_update'): every order the database may return, records
\* of equal last_update in any order
RECURSIVE OrderByLastUpdate(_, _)
OrderByLastUpdate(d, S) ==
    IF S = {} THEN {<<>>}
    ELSE UNION {{<< i >> \o s : s \in OrderByLastUpdate(d, S \ {i})} :
                   i \in {j \in S : \A x \in S : d[j].last_update >= d[x].last_update}}

\* the results obj['qs'] = qs[:50] may evaluate to
\* faulty variant of PackageItems: the slice taken before the filters
PackageItems_SliceFirst(d, arch, repo) ==
    {SelectSeq(Slice(s, PACKAGE_LIMIT), LAMBDA i : i \in GetObjectIds(d, arch, repo)) :
        s \in OrderByLastUpdate(d, DOMAIN d)}

PackageItems(d, arch, repo) ==
    {Slice(s, PACKAGE_LIMIT) : s \in OrderByLastUpdate(d, GetObjectIds(d, arch, repo))}

\* NewsFeed.items: order_by('-postdate', '-id')[:10]
\* faulty variant of NewsBefore: items of one postdate in ascending id order
NewsBefore_IdAscending(d, i, j) ==
    \/ d[i].postdate > d[j].postdate
    \/ d[i].postdate = d[j].postdate /\ i < j

NewsBefore(d, i, j) ==
    \/ d[i].postdate > d[j].postdate
    \/ d[i].postdate = d[j].postdate /\ i > j

\* the rows of S in this order, which is total: ids are unique
RECURSIVE OrderByPostdateId(_, _)
OrderByPostdateId(d, S) ==
    IF S = {} THEN <<>>
    ELSE LET i == CHOOSE j \in S : \A x \in S \ {j} : NewsBefore(d, j, x)
         IN  << i >> \o OrderByPostdateId(d, S \ {i})

NewsItems(d) == {Slice(OrderByPostdateId(d, DOMAIN d), NEWS_LIMIT)}

\* Feed.__call__ of the parent class: get_object, then items; an
\* ObjectDoesNotExist from get_object becomes a 404
FeedView(k, d, kw) ==
    IF k = "news" THEN {[resp |-> "200", items |-> s] : s \in NewsItems(d)}
    ELSE IF GetObjectRaises(Arg(kw, "arch"), Arg(kw, "repo"))
         THEN {[resp |-> "404", items |-> <<>>]}
         ELSE {[resp |-> "200", items |-> s] :
                  s \in PackageItems(d, Arg(kw, "arch"), Arg(kw, "repo"))}

\* PackageFeed.__call__ / NewsFeed.__call__: the view wrapped by condition().
\* The outcomes of a request on cache c and collection d at time t.
\* faulty variant of FeedCall: the parent view called without the wrapper
FeedCall_Unwrapped(k, c, d, t, kw, if_none_match, if_modified_since) ==
    {[cache |-> c, etag |-> None, lastmod |-> None, queries |-> 0, selected |-> TRUE,
      resp |-> v.resp, items |-> v.items] : v \in FeedView(k, d, kw)}

FeedCall(k, c, d, t, kw, if_none_match, if_modified_since) ==
    LET r1 == RetrieveLatest(k, c, d, t)
        res_etag == ETagOf(k, kw, r1.ret)
        r2 == RetrieveLatest(k, r1.cache, d, t)
        res_last_modified == r2.ret
    IN  IF Condition(if_none_match, if_modified_since, res_etag,
                     HttpDate(res_last_modified))
        THEN {[cache |-> r2.cache, etag |-> res_etag, lastmod |-> res_last_modified,
               queries |-> r1.queries + r2.queries,
               selected |-> FALSE, resp |-> "304", items |-> <<>>]}
        ELSE {[cache |-> r2.cache, etag |-> res_etag, lastmod |-> res_last_modified,
               queries |-> r1.queries + r2.queries,
               selected |-> TRUE, resp |-> v.resp, items |-> v.items] :
                  v \in FeedView(k, d, kw)}

\* ---------------------------------------------------------------- inputs
\* the records, URL arguments and conditional headers the tracker runs draw
PackageRecs(archs, repos) ==
    [last_update : Stamps, arch : archs, repo : repos]

NewsRecs == [last_modified : Stamps, postdate : {1}]

\* the tracker runs write any number of packages up to MaxId and one news
\* item, which they insert and then update
IdsOf(k) == IF k = "packages" THEN Ids ELSE {1}

Recs(k) == IF k = "packages" THEN PackageRecs({"x86_64"}, {"core"}) ELSE NewsRecs

KwargsOf(k) ==
    IF k = "packages" THEN {<<>>, << <<"arch", "x86_64">> >>} ELSE {<<>>}

\* the conditional headers of a request: none, or the two validators of an
\* earlier response of this URL (a response carries both or neither)
Headers(k, kw) ==
    {[if_none_match |-> None, if_modified_since |-> None]}
    \cup {[if_none_match |-> ETagOf(k, kw, <<t>>), if_modified_since |-> HttpDate(<<t>>)] :
             t \in Stamps}

\* ------------------------------------------------------------------ state
Threads == 1..NThreads

\* a thread between calls
IdleThread ==
    [pc |-> "idle", kind |-> "none", id |-> 0, latest |-> None, ret |-> None,
     settled |-> {}]

NoComputation == [kind |-> "none", kwargs |-> <<>>, etag |-> None, max |-> None]

NoReq == [kwargs |-> <<>>, if_none_match |-> None, if_modified_since |-> None]

Init ==
    /\ db = [k \in Kinds |-> <<>>]
    /\ cache = <<>>
    /\ now = 0
    /\ last = [op |-> "init", kind |-> "none"]
    /\ ret = None
    /\ queries = 0
    /\ req = NoReq
    /\ etag = None
    /\ lastmod = None
    /\ resp = "none"
    /\ selected = FALSE
    /\ items = <<>>
    /\ prev = NoComputation
    /\ before = NoComputation
    /\ failed = [k \in Kinds |-> None]
    /\ th = [t \in Threads |-> IdleThread]

NoRequest ==
    /\ req' = NoReq
    /\ etag' = None
    /\ lastmod' = None
    /\ resp' = "none"
    /\ selected' = FALSE
    /\ items' = <<>>
    /\ before' = NoComputation

\* the primary key of an insert: ids are handed out in sequence
NextId(d) == Cardinality(DOMAIN d) + 1

\* A record of k is saved (inserted, or updated when id exists); post_save
\* then runs the refresh hook, all before save() returns.
\* faulty variant of Save: no receiver is connected to post_save
Save_NoHook(k, id, rec) ==
    /\ id \in (DOMAIN db[k]) \cup {NextId(db[k])}
    /\ db' = [db EXCEPT ![k] = Write(db[k], id, rec)]
    /\ last' = [op |-> "save", kind |-> k]
    /\ ret' = None
    /\ queries' = 0
    /\ failed' = [failed EXCEPT ![k] = None]
    /\ NoRequest
    /\ UNCHANGED <<cache, now, prev, th>>

Save(k, id, rec) ==
    /\ id \in (DOMAIN db[k]) \cup {NextId(db[k])}
    /\ LET d == Write(db[k], id, rec) IN
        /\ db' = [db EXCEPT ![k] = d]
        /\ cache' = RefreshLatest(k, cache, d, now)
    /\ last' = [op |-> "save", kind |-> k]
    /\ ret' = None
    /\ queries' = 1
    /\ failed' = [failed EXCEPT ![k] = None]
    /\ NoRequest
    /\ UNCHANGED <<now, prev, th>>

\* faulty variant of RefreshFails: the failing hook caches the old value anew
RefreshFails_Recache(k, c, d, t) ==
    IF KeyOf(k) \in DOMAIN c
    THEN CacheSet(c, KeyOf(k), c[KeyOf(k)].value, CACHE_TIMEOUT, t)
    ELSE c

\* the hook's aggregate query raises: the exception leaves
\* refresh_*_latest before its cache.set
RefreshFails(k, c, d, t) == c

\* A record of k is saved and committed, and the aggregate query of the
\* post_save hook then fails (a storage error).
SaveQueryFails(k, id, rec) ==
    /\ id \in (DOMAIN db[k]) \cup {NextId(db[k])}
    /\ LET d == Write(db[k], id, rec) IN
        /\ db' = [db EXCEPT ![k] = d]
        /\ cache' = RefreshFails(k, cache, d, now)
        /\ failed' = [failed EXCEPT
                        ![k] = << now, CacheGet(cache, KeyOf(k), now) >>]
    /\ last' = [op |-> "save_failed", kind |-> k]
    /\ ret' = None
    /\ queries' = 1
    /\ NoRequest
    /\ UNCHANGED <<now, prev, th>>

\* a call of retrieve_package_latest / retrieve_news_latest
Retrieve(k) ==
    /\ LET r == RetrieveLatest(k, cache, db[k], now) IN
        /\ cache' = r.cache
        /\ ret' = r.ret
        /\ queries' = r.queries
    /\ last' = [op |-> "retrieve", kind |-> k]
    /\ NoRequest
    /\ UNCHANGED <<db, now, prev, failed, th>>

\* a GET of the feed of k with URL arguments kw and conditional headers
RequestStep(k, kw, if_none_match, if_modified_since) ==
    /\ \E o \in FeedCall(k, cache, db[k], now, kw, if_none_match, if_modified_since) :
        /\ cache' = o.cache
        /\ etag' = o.etag
        /\ lastmod' = o.lastmod
        /\ queries' = o.queries
        /\ resp' = o.resp
        /\ selected' = o.selected
        /\ items' = o.items
    /\ req' = [kwargs |-> kw, if_none_match |-> if_none_match,
               if_modified_since |-> if_modified_since]
    /\ last' = [op |-> "request", kind |-> k]
    /\ ret' = None
    /\ UNCHANGED <<db, now, failed, th>>

Request(k, kw, if_none_match, if_modified_since) ==
    /\ RequestStep(k, kw, if_none_match, if_modified_since)
    /\ UNCHANGED <<prev, before>>

\* the same request, where the run also records this ETag computation (prev)
\* and the one before it (before)
TrackedRequest(k, kw, if_none_match, if_modified_since) ==
    /\ RequestStep(k, kw, if_none_match, if_modified_since)
    /\ prev' = [kind |-> k, kwargs |-> kw, etag |-> etag', max |-> Latest(k, db[k])]
    /\ before' = prev

\* time passes
Tick ==
    /\ now + Step <= MaxNow
    /\ now' = now + Step
    /\ last' = [op |-> "tick", kind |-> "none"]
    /\ ret' = None
    /\ queries' = 0
    /\ NoRequest
    /\ UNCHANGED <<db, cache, prev, failed, th>>

\* ---------------------------------------------------- the sequential runs
Next ==
    \/ \E k \in Kinds : \E id \in IdsOf(k), rec \in Recs(k) : Save(k, id, rec)
    \/ \E k \in Kinds : Retrieve(k)
    \/ \E k \in Kinds : \E kw \in KwargsOf(k) : \E h \in Headers(k, kw) :
          Request(k, kw, h.if_none_match, h.if_modified_since)
    \/ Tick

Spec == Init /\ [][Next]_vars

\* the runs made only of saves (each with its hook), retrieve_*_latest calls
\* and clock advances
NextTracker ==
    \/ \E k \in Kinds : \E id \in IdsOf(k), rec \in Recs(k) : Save(k, id, rec)
    \/ \E k \in Kinds : Retrieve(k)
    \/ Tick

SpecTracker == Init /\ [][NextTracker]_vars

\* the same runs while the cache store cannot be reached
InitDown ==
    /\ db = [k \in Kinds |-> <<>>]
    /\ cache = Unreachable
    /\ now = 0
    /\ last = [op |-> "init", kind |-> "none"]
    /\ ret = None
    /\ queries = 0
    /\ req = NoReq
    /\ etag = None
    /\ lastmod = None
    /\ resp = "none"
    /\ selected = FALSE
    /\ items = <<>>
    /\ prev = NoComputation
    /\ before = NoComputation
    /\ failed = [k \in Kinds |-> None]
    /\ th = [t \in Threads |-> IdleThread]

SpecDown == InitDown /\ [][NextTracker]_vars

\* the runs of one tracker alone (the two share their code shape and run on
\* separate keys), where the aggregate query of a post_save hook may fail
FaultKinds == {"packages"}

NextFault ==
    \/ \E k \in FaultKinds : \E id \in IdsOf(k), rec \in Recs(k) : Save(k, id, rec)
    \/ \E k \in FaultKinds : \E id \in IdsOf(k), rec \in Recs(k) : SaveQueryFails(k, id, rec)
    \/ \E k \in FaultKinds : Retrieve(k)
    \/ Tick

SpecFault == Init /\ [][NextFault]_vars

\* the runs that compare successive ETag computations: saves, requests
\* without conditional headers, the clock
NextETag ==
    \/ \E k \in Kinds : \E id \in IdsOf(k), rec \in Recs(k) : Save(k, id, rec)
    \/ \E k \in Kinds : \E kw \in KwargsOf(k) : TrackedRequest(k, kw, None, None)
    \/ Tick

SpecETag == Init /\ [][NextETag]_vars

\* --------------------------------------------------- the item selection
\* the URLs of the package feed: /, /<arch>/ and /<arch>/<repo>/
SelArchArgs == {"x86_64", "any", "nonexistent"}

SelKwargs ==
    {<<>>}
    \cup {<< <<"arch", a>> >> : a \in SelArchArgs}
    \cup {<< <<"arch", "x86_64">>, <<"repo", r>> >> : r \in {"core", "nonexistent"}}
    \cup {<< <<"arch", a>>, <<"repo", "core">> >> : a \in {"any", "nonexistent"}}

\* the package tables the selection runs start from, with the cache as the
\* hook of the last save left it
SelDbs ==
    UNION {[1..n -> PackageRecs(ArchNames, RepoNames)] : n \in 0..SelMaxId}

InitSelect ==
    /\ \E d \in SelDbs :
        /\ db = [k \in Kinds |-> IF k = "packages" THEN d ELSE <<>>]
        /\ cache = IF DOMAIN d = {} THEN <<>> ELSE RefreshLatest("packages", <<>>, d, 0)
    /\ now = 0
    /\ last = [op |-> "init", kind |-> "none"]
    /\ ret = None
    /\ queries = 0
    /\ req = NoReq
    /\ etag = None
    /\ lastmod = None
    /\ resp = "none"
    /\ selected = FALSE
    /\ items = <<>>
    /\ prev = NoComputation
    /\ before = NoComputation
    /\ failed = [k \in Kinds |-> None]
    /\ th = [t \in Threads |-> IdleThread]

\* PackageFeed.get_object followed by PackageFeed.items, as the feed view
\* runs them for the URL arguments kw
GetObject(kw) ==
    /\ \E v \in FeedView("packages", db["packages"], kw) :
        /\ resp' = v.resp
        /\ items' = v.items
    /\ selected' = TRUE
    /\ req' = [kwargs |-> kw, if_none_match |-> None, if_modified_since |-> None]
    /\ last' = [op |-> "get_object", kind |-> "packages"]
    /\ ret' = None
    /\ queries' = 0
    /\ etag' = None
    /\ lastmod' = None
    /\ before' = NoComputation
    /\ UNCHANGED <<db, cache, now, prev, failed, th>>

NextSelect == \E kw \in SelKwargs : GetObject(kw)

SpecSelect == InitSelect /\ [][NextSelect]_vars

\* the package tables around the limit of the feed: n packages, package i
\* updated at (i * mult) % modulus + 1, every skip-th of another architecture
TruncDb(n, mult, modulus, skip) ==
    [i \in 1..n |->
        [last_update |-> ((i * mult) % modulus) + 1,
         arch |-> IF i % skip = 0 THEN "i686" ELSE "x86_64",
         repo |-> "core"]]

TruncSizes == (PACKAGE_LIMIT - 1)..(PACKAGE_LIMIT + TruncOver)

\* with modulus PACKAGE_LIMIT + 1 some packages share their last_update
TruncDbs ==
    {TruncDb(n, mult, modulus, skip) :
        n \in TruncSizes,
        mult \in {1, 7, 23},
        modulus \in {PACKAGE_LIMIT + 1, PACKAGE_LIMIT + TruncOver + 7},
        skip \in {3, 29, PACKAGE_LIMIT + TruncOver + 1}}

TruncKwargs ==
    {<<>>, << <<"arch", "x86_64">> >>, << <<"arch", "x86_64">>, <<"repo", "core">> >>}

InitTrunc ==
    /\ \E d \in TruncDbs :
        /\ db = [k \in Kinds |-> IF k = "packages" THEN d ELSE <<>>]
        /\ cache = RefreshLatest("packages", <<>>, d, 0)
    /\ now = 0
    /\ last = [op |-> "init", kind |-> "none"]
    /\ ret = None
    /\ queries = 0
    /\ req = NoReq
    /\ etag = None
    /\ lastmod = None
    /\ resp = "none"
    /\ selected = FALSE
    /\ items = <<>>
    /\ prev = NoComputation
    /\ before = NoComputation
    /\ failed = [k \in Kinds |-> None]
    /\ th = [t \in Threads |-> IdleThread]

NextTrunc == \E kw \in TruncKwargs : GetObject(kw)

SpecTrunc == InitTrunc /\ [][NextTrunc]_vars

\* the news tables the news selection runs start from: up to NewsOver items
\* more than the feed shows, posted on either of two days
PostDates == {1, 2}

NewsRows == [last_modified : {1}, postdate : PostDates]

NewsDbs == UNION {[1..n -> NewsRows] : n \in 0..(NEWS_LIMIT + NewsOver)}

InitNews ==
    /\ \E d \in NewsDbs :
        /\ db = [k \in Kinds |-> IF k = "news" THEN d ELSE <<>>]
        /\ cache = IF DOMAIN d = {} THEN <<>> ELSE RefreshLatest("news", <<>>, d, 0)
    /\ now = 0
    /\ last = [op |-> "init", kind |-> "none"]
    /\ ret = None
    /\ queries = 0
    /\ req = NoReq
    /\ etag = None
    /\ lastmod = None
    /\ resp = "none"
    /\ selected = FALSE
    /\ items = <<>>
    /\ prev = NoComputation
    /\ before = NoComputation
    /\ failed = [k \in Kinds |-> None]
    /\ th = [t \in Threads |-> IdleThread]

\* NewsFeed.items, as the feed view runs it
NewsFeedItems ==
    /\ \E v \in FeedView("news", db["news"], <<>>) :
        /\ resp' = v.resp
        /\ items' = v.items
    /\ selected' = TRUE
    /\ req' = NoReq
    /\ last' = [op |-> "items", kind |-> "news"]
    /\ ret' = None
    /\ queries' = 0
    /\ etag' = None
    /\ lastmod' = None
    /\ before' = NoComputation
    /\ UNCHANGED <<db, cache, now, prev, failed, th>>

NextNews == NewsFeedItems

SpecNews == InitNews /\ [][NextNews]_vars

\* ---------------------------------------------------- the concurrent runs
\* Each thread runs one call at a time; the steps of a call are its cache
\* and database operations, which interleave with those of other threads.
Writing(t) == th[t].pc \in {"w_query", "w_set"}

Free(t) == th[t].pc \in {"idle", "returned"}

\* the records of k whose last save has returned, hook included
Settled(k) ==
    {i \in DOMAIN db[k] :
        \A u \in Threads : ~(Writing(u) /\ th[u].kind = k /\ th[u].id = i)}

\* retrieve_*_latest, line 20/105: cache.get, and the return on a hit
RGet(t, k) ==
    /\ Free(t)
    /\ LET latest == CacheGet(cache, KeyOf(k), now) IN
        th' = [th EXCEPT ![t] =
                 [pc |-> IF Truthy(latest) THEN "returned" ELSE "r_query",
                  kind |-> k, id |-> 0, latest |-> latest, ret |-> latest,
                  settled |-> Settled(k)]]
    /\ UNCHANGED <<db, cache, now, observed>>

\* retrieve_*_latest, lines 24-25/109-110: the aggregate query, and the
\* return of None when it raises DoesNotExist
RQuery(t) ==
    /\ th[t].pc = "r_query"
    /\ LET fresh == Latest(th[t].kind, db[th[t].kind]) IN
        th' = [th EXCEPT ![t].pc = IF fresh = DoesNotExist THEN "returned" ELSE "r_set",
                         ![t].latest = fresh,
                         ![t].ret = None]
    /\ UNCHANGED <<db, cache, now, observed>>

\* retrieve_*_latest, lines 26-27/111-112: cache.set, and the return
RSet(t) ==
    /\ th[t].pc = "r_set"
    /\ cache' = CacheSet(cache, KeyOf(th[t].kind), th[t].latest[1], CACHE_TIMEOUT, now)
    /\ th' = [th EXCEPT ![t].pc = "returned", ![t].ret = th[t].latest]
    /\ UNCHANGED <<db, now, observed>>

\* save() commits the record; the post_save hook is still to run.  A record
\* written anew is no longer one a running retrieve call started after.
WCommit(t, k, id, rec) ==
    /\ Free(t)
    /\ id \in (DOMAIN db[k]) \cup {NextId(db[k])}
    /\ db' = [db EXCEPT ![k] = Write(@, id, rec)]
    /\ th' = [u \in Threads |->
                IF u = t
                THEN [pc |-> "w_query", kind |-> k, id |-> id, latest |-> None,
                      ret |-> None, settled |-> {}]
                ELSE IF th[u].kind = k
                     THEN [th[u] EXCEPT !.settled = @ \ {id}]
                     ELSE th[u]]
    /\ UNCHANGED <<cache, now, observed>>

\* refresh_*_latest, lines 36-37/121-122: the aggregate query
WQuery(t) ==
    /\ th[t].pc = "w_query"
    /\ th' = [th EXCEPT ![t].pc = "w_set",
                        ![t].latest = Latest(th[t].kind, db[th[t].kind])]
    /\ UNCHANGED <<db, cache, now, observed>>

\* refresh_*_latest, line 38/123: cache.set; save() then returns
WSet(t) ==
    /\ th[t].pc = "w_set"
    /\ cache' = CacheSet(cache, KeyOf(th[t].kind), th[t].latest[1], CACHE_TIMEOUT, now)
    /\ th' = [th EXCEPT ![t] = IdleThread]
    /\ UNCHANGED <<db, now, observed>>

\* time passes
ConcTick ==
    /\ now + Step <= MaxNow
    /\ now' = now + Step
    /\ UNCHANGED <<db, cache, observed, th>>

\* one writer at a time, any number of readers
NextConc ==
    \/ \E t \in Threads, k \in Kinds : RGet(t, k)
    \/ \E t \in Threads : RQuery(t)
    \/ \E t \in Threads : RSet(t)
    \/ \E t \in Threads, k \in Kinds : \E id \in IdsOf(k), rec \in Recs(k) :
          /\ \A u \in Threads : ~Writing(u)
          /\ WCommit(t, k, id, rec)
    \/ \E t \in Threads : WQuery(t)
    \/ \E t \in Threads : WSet(t)
    \/ ConcTick

SpecConc == Init /\ [][NextConc]_vars

\* writers only, any number of them at once: each runs save() and its own
\* post_save hook
NextWriters ==
    \/ \E t \in Threads, k \in Kinds : \E id \in IdsOf(k), rec \in Recs(k) :
          WCommit(t, k, id, rec)
    \/ \E t \in Threads : WQuery(t)
    \/ \E t \in Threads : WSet(t)

SpecWriters == Init /\ [][NextWriters]_vars

\* condition() computing the ETag of a feed request: package_etag /
\* news_etag, with its call of retrieve_*_latest
ReqETag(k, kw) ==
    /\ last.op # "etag"
    /\ LET r == RetrieveLatest(k, cache, db[k], now) IN
        /\ cache' = r.cache
        /\ ret' = r.ret
        /\ etag' = ETagOf(k, kw, r.ret)
        /\ queries' = r.queries
    /\ req' = [kwargs |-> kw, if_none_match |-> None, if_modified_since |-> None]
    /\ last' = [op |-> "etag", kind |-> k]
    /\ lastmod' = None
    /\ resp' = "none"
    /\ selected' = FALSE
    /\ items' = <<>>
    /\ UNCHANGED <<db, now, prev, before, failed, th>>

\* condition() computing the Last-Modified of the same request:
\* package_last_modified / news_last_modified, with a call of
\* retrieve_*_latest of its own
ReqLastModified ==
    /\ last.op = "etag"
    /\ LET r == RetrieveLatest(last.kind, cache, db[last.kind], now) IN
        /\ cache' = r.cache
        /\ lastmod' = r.ret
        /\ queries' = queries + r.queries
    /\ last' = [op |-> "last_modified", kind |-> last.kind]
    /\ UNCHANGED <<db, now, ret, req, etag, resp, selected, items, prev, before,
                   failed, th>>

\* one feed request at a time, taken validator by validator, while one
\* writer at a time saves records
NextReq ==
    \/ \E k \in Kinds : \E kw \in KwargsOf(k) : ReqETag(k, kw)
    \/ ReqLastModified
    \/ \E t \in Threads, k \in Kinds : \E id \in IdsOf(k), rec \in Recs(k) :
          /\ \A u \in Threads : ~Writing(u)
          /\ WCommit(t, k, id, rec)
    \/ \E t \in Threads : WQuery(t)
    \/ \E t \in Threads : WSet(t)

SpecReq == Init /\ [][NextReq]_vars

\* ------------------------------------------------------------- properties
\* v is the greatest freshness timestamp of the records of k
IsMax(k, v) ==
    /\ v # None
    /\ \A i \in DOMAIN db[k] : v[1] >= LastModified(k, db[k][i])
    /\ \E i \in DOMAIN db[k] : v[1] = LastModified(k, db[k][i])

\* the entry of k is present and has not expired
Live(k) == KeyOf(k) \in DOMAIN cache /\ now < cache[KeyOf(k)].expires

\* the entry of k is present, although it may have expired
Present(k) == KeyOf(k) \in DOMAIN cache

\* C1: in a sequential run that starts with empty collections and an empty
\* cache, where every save is followed by its post_save hook, each
\* retrieve_*_latest call made once a record exists returns the greatest
\* freshness timestamp of the records written so far, hence a value >= the
\* timestamp of every one of them.
C1_LatestIsMaxWritten ==
    \A k \in Kinds :
        (last.op = "retrieve" /\ last.kind = k /\ DOMAIN db[k] # {}) => IsMax(k, ret)

C1_Witness ==
    /\ last = [op |-> "retrieve", kind |-> "packages"]
    /\ DOMAIN db["packages"] = {1, 2}
    /\ db["packages"][1].last_update = 2
    /\ db["packages"][2].last_update = 1
    /\ ret = << 2 >>

\* C3: a retrieve_*_latest call that directly follows a save of the same
\* collection (its hook included) returns exactly the value the hook stored
\* and runs no aggregate query.
C3_ReadAfterHookIsCached ==
    [][\A k \in Kinds :
        (/\ last = [op |-> "save", kind |-> k]
         /\ last' = [op |-> "retrieve", kind |-> k])
        => /\ Present(k)
           /\ ret' = << cache[KeyOf(k)].value >>
           /\ queries' = 0
           /\ cache' = cache]_vars

C3_Witness ==
    /\ last = [op |-> "retrieve", kind |-> "packages"]
    /\ now = 0
    /\ queries = 0
    /\ ret = << 2 >>
    /\ cache[KeyOf("packages")].value = 2

\* C4: a retrieve_*_latest call made CACHE_TIMEOUT seconds or more after the
\* entry was set treats the entry as absent: it runs the aggregate query and
\* returns the current greatest timestamp of the collection, which it stores
\* anew.
C4_ExpiredEntryIsRecomputed ==
    [][\A k \in FaultKinds :
        (/\ last'.op = "retrieve"
         /\ last'.kind = k
         /\ Present(k)
         /\ now >= cache[KeyOf(k)].setAt + CACHE_TIMEOUT)
        => /\ queries' = 1
           /\ IsMax(k, ret')
           /\ cache'[KeyOf(k)].setAt = now
           /\ << cache'[KeyOf(k)].value >> = ret']_vars

C4_Witness ==
    /\ last = [op |-> "retrieve", kind |-> "packages"]
    /\ now = CACHE_TIMEOUT
    /\ queries = 1
    /\ DOMAIN db["packages"] = {1, 2}
    /\ failed["packages"] # None
    /\ failed["packages"][2] = << 1 >>
    /\ ret = << 2 >>

\* C5: of two successive ETag computations for the same feed and the same
\* URL arguments, the second returns the same value as the first exactly when
\* the collection's greatest timestamp is the same as at the first (so always
\* when nothing was written in between, and never when a write changed it).
C5_ETagDeterminism ==
    \A k \in Kinds :
        (/\ last = [op |-> "request", kind |-> k]
         /\ before.kind = k
         /\ before.kwargs = req.kwargs)
        => (etag = before.etag <=> Latest(k, db[k]) = before.max)

C5_Witness ==
    /\ last = [op |-> "request", kind |-> "packages"]
    /\ before.kind = "packages"
    /\ before.kwargs = req.kwargs
    /\ before.etag # None
    /\ etag # None
    /\ etag # before.etag

\* C6: a feed request whose If-None-Match and If-Modified-Since carry the
\* values package_etag / news_etag and *_last_modified return for it is
\* answered "not modified" and get_object / items are not invoked; they are
\* invoked exactly when the request is not answered "not modified".
C6_NotModifiedSkipsSelector ==
    \A k \in Kinds :
        last = [op |-> "request", kind |-> k] =>
            /\ (/\ etag # None
                /\ lastmod # None
                /\ req.if_none_match = etag
                /\ req.if_modified_since = HttpDate(lastmod))
               => (resp = "304" /\ ~selected /\ items = <<>>)
            /\ (/\ Latest(k, db[k]) # DoesNotExist
                /\ req.if_none_match = ETagOf(k, req.kwargs, Latest(k, db[k]))
                /\ req.if_modified_since = HttpDate(Latest(k, db[k])))
               => (resp = "304" /\ ~selected /\ items = <<>>)
            /\ selected <=> resp # "304"

C6_Witness ==
    /\ last = [op |-> "request", kind |-> "packages"]
    /\ DOMAIN db["packages"] = {1, 2}
    /\ req.if_none_match # None
    /\ req.if_none_match = etag
    /\ resp = "304"
    /\ ~selected

\* C7: while a collection is empty, nothing is cached for it, every
\* retrieve_*_latest call runs the aggregate query and returns None, and a
\* feed request gets None for both ETag and Last-Modified (each computed by a
\* query of its own) and is never answered "not modified".
C7_EmptyCollection ==
    \A k \in Kinds :
        DOMAIN db[k] = {} =>
            /\ ~Present(k)
            /\ (last = [op |-> "retrieve", kind |-> k]) => (ret = None /\ queries = 1)
            /\ (last = [op |-> "request", kind |-> k])
               => (etag = None /\ lastmod = None /\ queries = 2 /\ resp # "304")

C7_Witness ==
    /\ last = [op |-> "request", kind |-> "news"]
    /\ DOMAIN db["news"] = {}
    /\ DOMAIN db["packages"] # {}
    /\ req.if_none_match # None
    /\ resp = "200"
    /\ queries = 2

\* a live entry of k holds a value that is not the collection's greatest
Stale(k) == Live(k) /\ ~IsMax(k, << cache[KeyOf(k)].value >>)

\* C8: when the aggregate query of a post_save hook fails, the write stays
\* in the collection and the cache entry stays as it was (same value, same
\* expiry); a stale entry expires no later than CACHE_TIMEOUT after the
\* failed hook; and the first retrieve_*_latest call at or after the expiry
\* returns the collection's greatest timestamp and caches it.
C8_FailedRefreshSelfHeals ==
    [][\A k \in FaultKinds :
        /\ (last'.op = "save_failed" /\ last'.kind = k)
           => /\ cache' = cache
              /\ \E i \in DOMAIN db'[k] : db'[k] = Write(db[k], i, db'[k][i])
        /\ Stale(k)'
           => /\ failed'[k] # None
              /\ cache'[KeyOf(k)].setAt <= failed'[k][1]
              /\ cache'[KeyOf(k)].expires = cache'[KeyOf(k)].setAt + CACHE_TIMEOUT
        /\ (/\ last' = [op |-> "retrieve", kind |-> k]
            /\ failed[k] # None
            /\ Present(k)
            /\ now >= cache[KeyOf(k)].expires)
           => /\ IsMax(k, ret')
              /\ CacheGet(cache', KeyOf(k), now) = ret']_vars

C8_Witness ==
    /\ last = [op |-> "retrieve", kind |-> "packages"]
    /\ failed["packages"] = << Step, << 1 >> >>
    /\ DOMAIN db["packages"] = {1}
    /\ now = CACHE_TIMEOUT
    /\ queries = 1
    /\ ret = << 2 >>
    /\ cache[KeyOf("packages")] = [value |-> 2, expires |-> 2 * CACHE_TIMEOUT,
                                   setAt |-> CACHE_TIMEOUT]

\* C9: an operation on one collection (a save with its hook, a
\* retrieve_*_latest call, a feed request) leaves the cache entry of the
\* other collection as it was: present or absent, value and expiry.
C9_TrackersIndependent ==
    [][\A k \in Kinds : \A j \in Kinds \ {k} :
        last'.kind = k =>
            /\ Present(j)' <=> Present(j)
            /\ Present(j) => cache'[KeyOf(j)] = cache[KeyOf(j)]
            /\ db'[j] = db[j]]_vars

C9_Witness ==
    /\ last = [op |-> "save", kind |-> "packages"]
    /\ Present("news")
    /\ Present("packages")
    /\ cache[KeyOf("news")].setAt = 0
    /\ cache[KeyOf("packages")].setAt = Step
    /\ cache[KeyOf("news")].value # cache[KeyOf("packages")].value

\* C2: with one writer and concurrent readers, a retrieve_*_latest call
\* returns a timestamp >= the freshness timestamp of every record whose save
\* (hook included) had returned when the call started and which has not been
\* written again since.
C2_NoStaleReadAfterHook ==
    \A t \in Threads :
        th[t].pc = "returned" =>
            \A i \in th[t].settled :
                /\ th[t].ret # None
                /\ th[t].ret[1] >= LastModified(th[t].kind, db[th[t].kind][i])

\* C10: get_object / items with an architecture that exists and no
\* repository returns each package whose architecture is the given one or is
\* agnostic exactly once, no other package, in descending last_update order.
C10_ArchOrAgnostic ==
    \A a \in ArchNames \cap SelArchArgs :
        (/\ last.op = "get_object"
         /\ req.kwargs = << <<"arch", a>> >>)
        => /\ resp = "200"
           /\ {items[n] : n \in 1..Len(items)} =
                 {i \in DOMAIN db["packages"] :
                     db["packages"][i].arch = a \/ Agnostic(db["packages"][i].arch)}
           /\ Len(items) = Cardinality({items[n] : n \in 1..Len(items)})
           /\ \A m, n \in 1..Len(items) :
                 m < n => db["packages"][items[m]].last_update
                            >= db["packages"][items[n]].last_update

C10_Witness ==
    /\ last.op = "get_object"
    /\ req.kwargs = << <<"arch", "x86_64">> >>
    /\ DOMAIN db["packages"] = {1, 2, 3}
    /\ db["packages"][1].arch = "x86_64" /\ db["packages"][1].last_update = 1
    /\ db["packages"][2].arch = "any" /\ db["packages"][2].last_update = 2
    /\ db["packages"][3].arch = "i686" /\ db["packages"][3].last_update = 2
    /\ items = << 2, 1 >>

\* C11: get_object / items with an architecture and a repository that both
\* exist returns exactly the packages whose architecture is the given one or
\* is agnostic AND whose repository is the given one; a package of another
\* repository is left out whatever its architecture.
C11_ArchAndRepo ==
    \A a \in ArchNames, r \in RepoNames :
        (/\ last.op = "get_object"
         /\ req.kwargs = << <<"arch", a>>, <<"repo", r>> >>)
        => /\ resp = "200"
           /\ {items[n] : n \in 1..Len(items)} =
                 {i \in DOMAIN db["packages"] :
                     /\ db["packages"][i].arch = a \/ Agnostic(db["packages"][i].arch)
                     /\ db["packages"][i].repo = r}
           /\ \A n \in 1..Len(items) : db["packages"][items[n]].repo = r

C11_Witness ==
    /\ last.op = "get_object"
    /\ req.kwargs = << <<"arch", "x86_64">>, <<"repo", "core">> >>
    /\ DOMAIN db["packages"] = {1, 2, 3}
    /\ db["packages"][1].arch = "x86_64" /\ db["packages"][1].repo = "extra"
    /\ db["packages"][2].arch = "any" /\ db["packages"][2].repo = "extra"
    /\ db["packages"][3].arch = "any" /\ db["packages"][3].repo = "core"
    /\ items = << 3 >>

\* C14: get_object with a non-empty architecture or repository name that
\* matches no row raises DoesNotExist, which the feed view answers with a
\* 404: the request gets no item list, neither an empty one nor the
\* unfiltered one.
C14_UnknownNameIsNotFound ==
    last.op = "get_object" =>
        LET arch == Arg(req.kwargs, "arch")
            repo == Arg(req.kwargs, "repo")
        IN  ((arch # "" /\ arch \notin ArchNames) \/ (repo # "" /\ repo \notin RepoNames))
            <=> resp = "404"

C14_Witness ==
    /\ last.op = "get_object"
    /\ req.kwargs = << <<"arch", "x86_64">>, <<"repo", "nonexistent">> >>
    /\ DOMAIN db["packages"] = {1, 2}
    /\ db["packages"][1].arch = "x86_64" /\ db["packages"][1].repo = "core"
    /\ db["packages"][2].arch = "any" /\ db["packages"][2].repo = "extra"
    /\ resp = "404"
    /\ items = <<>>

\* C16: the post_save hook neither reads nor deletes the entry: whether or
\* not an entry existed and whatever lifetime it had left, after a save the
\* entry holds the collection's greatest timestamp as queried after the write
\* and expires CACHE_TIMEOUT seconds from now; and no operation removes an
\* entry that is present (it stops being served only by expiring).
C16_HookOverwritesNeverDeletes ==
    [][\A k \in Kinds :
        /\ (last'.op = "save" /\ last'.kind = k)
           => /\ Present(k)'
              /\ IsMax(k, << cache[KeyOf(k)].value >>)'
              /\ cache'[KeyOf(k)].expires = now + CACHE_TIMEOUT
              /\ cache'[KeyOf(k)].setAt = now
              /\ queries' = 1
        /\ Present(k) => Present(k)']_vars

C16_Witness ==
    /\ last = [op |-> "save", kind |-> "packages"]
    /\ now = 2 * Step
    /\ DOMAIN db["packages"] = {1, 2}
    /\ db["packages"][1].last_update = 1
    /\ db["packages"][2].last_update = 1
    /\ cache[KeyOf("packages")] = [value |-> 1, expires |-> 2 * Step + CACHE_TIMEOUT,
                                   setAt |-> 2 * Step]

\* C17: in every run made only of saves (each followed by its post_save
\* hook), retrieve_*_latest calls and clock advances, an entry that is
\* present and has not expired holds the current greatest freshness
\* timestamp of its collection.
C17_LiveEntryIsCurrentMax ==
    \A k \in Kinds : Live(k) => IsMax(k, << cache[KeyOf(k)].value >>)

C17_Witness ==
    /\ last = [op |-> "retrieve", kind |-> "packages"]
    /\ now = 2 * Step
    /\ Live("packages")
    /\ cache[KeyOf("packages")].setAt = Step
    /\ DOMAIN db["packages"] = {1, 2}
    /\ db["packages"][1].last_update = 2
    /\ db["packages"][2].last_update = 1
    /\ ret = << 2 >>
    /\ queries = 0

\* C15: while the cache store cannot be reached (every get misses, every
\* set is dropped), a retrieve_*_latest call still returns: it runs the
\* aggregate query and returns the collection's current greatest freshness
\* timestamp (None while the collection is empty), and nothing gets cached.
C15_UnreachableStoreFallsBack ==
    /\ Down(cache)
    /\ \A k \in Kinds :
        last = [op |-> "retrieve", kind |-> k] =>
            /\ queries = 1
            /\ DOMAIN db[k] # {} => IsMax(k, ret)
            /\ DOMAIN db[k] = {} => ret = None
            /\ ~Present(k)

C15_Witness ==
    /\ Down(cache)
    /\ last = [op |-> "retrieve", kind |-> "packages"]
    /\ now = Step
    /\ DOMAIN db["packages"] = {1, 2}
    /\ db["packages"][1].last_update = 2
    /\ db["packages"][2].last_update = 1
    /\ ret = << 2 >>
    /\ queries = 1

\* C12: get_object / items never returns more than PACKAGE_LIMIT (50)
\* packages, each a package that passes the filters, none twice; when more
\* than 50 packages pass the filters it returns exactly 50, and no package
\* that passes and is left out has a greater last_update than one returned
\* (the slice is taken after filtering and ordering).
C12_AtMostFiftyMostRecent ==
    (last.op = "get_object" /\ resp = "200") =>
        LET d == db["packages"]
            arch == Arg(req.kwargs, "arch")
            repo == Arg(req.kwargs, "repo")
            pass == {i \in DOMAIN d :
                        /\ arch # "" => (d[i].arch = arch \/ Agnostic(d[i].arch))
                        /\ repo # "" => d[i].repo = repo}
            got == {items[n] : n \in 1..Len(items)}
        IN  /\ Len(items) <= PACKAGE_LIMIT
            /\ got \subseteq pass
            /\ Cardinality(got) = Len(items)
            /\ Cardinality(pass) > PACKAGE_LIMIT =>
                  /\ Len(items) = PACKAGE_LIMIT
                  /\ \A i \in pass \ got : \A j \in got :
                        d[i].last_update <= d[j].last_update

C12_Witness ==
    /\ last.op = "get_object"
    /\ req.kwargs = << <<"arch", "x86_64">> >>
    /\ db["packages"] = TruncDb(PACKAGE_LIMIT + 2, 1, PACKAGE_LIMIT + 1, 29)
    /\ Len(items) = PACKAGE_LIMIT
    /\ \A n \in 1..Len(items) : items[n] \notin {29, PACKAGE_LIMIT + 1}

\* C13: NewsFeed.items returns at most NEWS_LIMIT (10) news items, none
\* twice, in descending (postdate, id) order: of two returned items the one
\* with the later postdate comes first, and of two with the same postdate
\* the one with the larger id; and no item left out comes before a returned
\* item in that order.
C13_TenLatestNewsInOrder ==
    last.op = "items" =>
        LET d == db["news"]
            got == {items[n] : n \in 1..Len(items)}
        IN  /\ Len(items) <= NEWS_LIMIT
            /\ got \subseteq DOMAIN d
            /\ Cardinality(got) = Len(items)
            /\ \A m, n \in 1..Len(items) :
                  m < n =>
                     \/ d[items[m]].postdate > d[items[n]].postdate
                     \/ /\ d[items[m]].postdate = d[items[n]].postdate
                        /\ items[m] > items[n]
            /\ \A x \in (DOMAIN d) \ got : \A y \in got :
                  \/ d[x].postdate < d[y].postdate
                  \/ d[x].postdate = d[y].postdate /\ x < y

C13_Witness ==
    /\ last.op = "items"
    /\ db["news"] = [i \in 1..(NEWS_LIMIT + 2) |->
                        [last_modified |-> 1, postdate |-> IF i \in {5, 7} THEN 2 ELSE 1]]
    /\ items = << 7, 5, 12, 11, 10, 9, 8, 6, 4, 3 >>

\* C18: when several writers save records of one collection at the same
\* time, each running its own post_save hook (aggregate query, then
\* cache.set), then in every interleaving, once all the hooks have returned
\* the entry holds the collection's greatest freshness timestamp.
C18_ConcurrentHooksLeaveMax ==
    \A k \in Kinds :
        (/\ \A t \in Threads : ~Writing(t)
         /\ Present(k))
        => IsMax(k, << cache[KeyOf(k)].value >>)

\* C19: within one feed request the ETag and the Last-Modified value come
\* from the same latest timestamp, also when a save and its hook run
\* between the two: the retrieve_*_latest call of *_etag and that of
\* *_last_modified return the same value.
C19_ValidatorsFromSameLatest ==
    \A k \in Kinds :
        last = [op |-> "last_modified", kind |-> k] =>
            /\ lastmod = ret
            /\ etag = ETagOf(k, req.kwargs, lastmod)

====
